---- MODULE Spec2Model ----
(***************************************************************************)
(* Rounding of extended-precision floats to native floats                  *)
(* (src/src/float/rounding.rs) and the byte-parsing traits                 *)
(* (src/src/traits.rs) of rust-lexical.                                    *)
(*                                                                         *)
(* The mantissa types u64/u128 and the float types f32/f64 are modelled at *)
(* reduced widths (BitsU64, BitsU128, MantissaSizeF32, ...): the code is   *)
(* generic in bits(M) and MANTISSA_SIZE, and every constant of the code is *)
(* derived from the widths exactly as the source derives it.  Significands *)
(* keep their width: every left shift and addition is taken modulo         *)
(* 2^bits(M).                                                              *)
(***************************************************************************)
EXTENDS Integers, Sequences, FiniteSets, TLC

\* ------------------------------------------------------------------------
\* Widths of the modelled types
\* ------------------------------------------------------------------------

BitsU64 == 6

BitsU128 == 8

MantissaSizeF32 == 2

MantissaSizeF64 == 3

ExponentSizeF32 == 3

ExponentSizeF64 == 4

Mantissas == {"u64", "u128"}

Floats == {"f32", "f64"}

\* M::BITS
BITS(m) == IF m = "u64" THEN BitsU64 ELSE BitsU128

\* T::MANTISSA_SIZE
MANTISSA_SIZE(t) == IF t = "f32" THEN MantissaSizeF32 ELSE MantissaSizeF64

\* T::EXPONENT_SIZE
EXPONENT_SIZE(t) == IF t = "f32" THEN ExponentSizeF32 ELSE ExponentSizeF64

\* T::EXPONENT_BIAS: the IEEE-754 bias plus the mantissa size (f64: 1023 + 52).
EXPONENT_BIAS(t) == 2^(EXPONENT_SIZE(t) - 1) - 1 + MANTISSA_SIZE(t)

\* T::DENORMAL_EXPONENT (f64: -1074).
DENORMAL_EXPONENT(t) == 1 - EXPONENT_BIAS(t)

\* T::MAX_EXPONENT (f64: 0x7FF - 1075).
MAX_EXPONENT(t) == (2^EXPONENT_SIZE(t) - 1) - EXPONENT_BIAS(t)

\* ------------------------------------------------------------------------
\* Bit operations on unsigned integers
\* ------------------------------------------------------------------------

RECURSIVE BitAnd(_, _)
\* a & b
BitAnd(a, b) ==
    IF a = 0 \/ b = 0 THEN 0
    ELSE (a % 2) * (b % 2) + 2 * BitAnd(a \div 2, b \div 2)

RECURSIVE BitLen(_)
\* Number of significant bits of x (bits(M) - x.leading_zeros()).
BitLen(x) == IF x = 0 THEN 0 ELSE 1 + BitLen(x \div 2)

\* ------------------------------------------------------------------------
\* ExtendedFloat<M> { frac, exp }
\* ------------------------------------------------------------------------

ExtendedFloat(f, e) == [frac |-> f, exp |-> e]

\* shr(fp, n): shift the significand right, discarding the low bits; exp += n.
shr(fp, n) == [frac |-> fp.frac \div 2^n, exp |-> fp.exp + n]

\* shl(fp, n): shift the significand left within bits(M); exp -= n.
shl(m, fp, n) == [frac |-> (fp.frac * 2^n) % 2^BITS(m), exp |-> fp.exp - n]

\* fp.normalize(): shift left until the top bit is set; no-op for zero.
normalize(m, fp) ==
    IF fp.frac = 0 THEN fp ELSE shl(m, fp, BITS(m) - BitLen(fp.frac))

\* M::ROUNDING_PARAMETERS[i]: mask has the low i bits set, mid = 1 << (i-1).
ROUNDING_PARAMETERS(m, i) ==
    [mask |-> 2^i - 1, mid |-> IF i = 0 THEN 0 ELSE 2^(i - 1), shift |-> i]

\* ------------------------------------------------------------------------
\* Rounding kernel
\* ------------------------------------------------------------------------

round_nearest_ge(fp, params) ==
    LET truncated_bits == BitAnd(fp.frac, params.mask)
    IN  [fp         |-> shr(fp, params.shift),
         is_above   |-> truncated_bits >= params.mid,
         is_halfway |-> truncated_bits = params.mid]

\* round_nearest: the flags are taken before the shift.
round_nearest(fp, params) ==
    LET truncated_bits == BitAnd(fp.frac, params.mask)
        is_above       == truncated_bits > params.mid
        is_halfway     == truncated_bits = params.mid
    IN  [fp         |-> shr(fp, params.shift),
         is_above   |-> is_above,
         is_halfway |-> is_halfway]

\* fp.frac += as_::<M, _>(is_roundup as u32)
AddRoundup(m, fp, is_roundup) ==
    [fp EXCEPT !.frac = (fp.frac + (IF is_roundup THEN 1 ELSE 0)) % 2^BITS(m)]

round_nearest_tie_even_no_odd(m, fp, params) ==
    LET r == round_nearest(fp, params)
    IN  AddRoundup(m, r.fp, r.is_above \/ r.is_halfway)

round_nearest_tie_even(m, fp, params) ==
    LET r          == round_nearest(fp, params)
        is_odd     == BitAnd(r.fp.frac, 1) = 1
        is_roundup == r.is_above \/ (is_odd /\ r.is_halfway)
    IN  AddRoundup(m, r.fp, is_roundup)

round_nearest_tie_away_zero_above(m, fp, params) ==
    LET r == round_nearest(fp, params)
    IN  AddRoundup(m, r.fp, r.is_above)

round_nearest_tie_away_zero(m, fp, params) ==
    LET r          == round_nearest(fp, params)
        is_roundup == r.is_above \/ r.is_halfway
    IN  AddRoundup(m, r.fp, is_roundup)

\* ------------------------------------------------------------------------
\* FloatRounding<M> for T
\* ------------------------------------------------------------------------

\* DEFAULT_SHIFT = M::BITS - T::MANTISSA_SIZE - 1
DEFAULT_SHIFT(t, m) == BITS(m) - MANTISSA_SIZE(t) - 1

\* CARRY_MASK: the bit above the hidden bit (f32: 0x1000000, f64: 0x20000000000000).
CARRY_MASK(t) == 2^(MANTISSA_SIZE(t) + 1)

OVERFLOW_MASK_below_hidden_bit(t) ==
    [i \in 0..MANTISSA_SIZE(t) |->
        (2^(MANTISSA_SIZE(t) + 1) - 2^(MANTISSA_SIZE(t) - i)) \div 2]

\* OVERFLOW_MASK: entry i has the top i+1 bits of the (MANTISSA_SIZE+1)-bit
\* significand set (f32: 0x00800000, 0x00C00000, ..., 0x00FFFFFF; 24 entries).
OVERFLOW_MASK(t) ==
    [i \in 0..MANTISSA_SIZE(t) |->
        2^(MANTISSA_SIZE(t) + 1) - 2^(MANTISSA_SIZE(t) - i)]

\* ROUNDING_PARAMS = &M::ROUNDING_PARAMETERS[DEFAULT_SHIFT as usize]
ROUNDING_PARAMS(t, m) == ROUNDING_PARAMETERS(m, DEFAULT_SHIFT(t, m))

round_to_float_default_params(t, m, fp) ==
    LET final_exp == fp.exp + DEFAULT_SHIFT(t, m)
        diff      == DENORMAL_EXPONENT(t) - fp.exp
        branch    == IF final_exp < DENORMAL_EXPONENT(t)
                     THEN (IF diff < BITS(m) THEN "denormal" ELSE "zero")
                     ELSE "normal"
        index     == IF branch = "zero" THEN -1 ELSE DEFAULT_SHIFT(t, m)
        rounded   == IF branch = "zero" THEN ExtendedFloat(0, 0)
                     ELSE round_nearest_tie_even(m, fp, ROUNDING_PARAMS(t, m))
        carried   == BitAnd(rounded.frac, CARRY_MASK(t)) = CARRY_MASK(t)
    IN  [branch |-> branch, index |-> index, rounded |-> rounded,
         carried |-> carried,
         fp |-> IF carried THEN shr(rounded, 1) ELSE rounded]

round_to_float_no_carry(t, m, fp) ==
    LET final_exp == fp.exp + DEFAULT_SHIFT(t, m)
        diff      == DENORMAL_EXPONENT(t) - fp.exp
        branch    == IF final_exp < DENORMAL_EXPONENT(t)
                     THEN (IF diff < BITS(m) THEN "denormal" ELSE "zero")
                     ELSE "normal"
        index     == CASE branch = "denormal" -> diff
                       [] branch = "zero" -> -1
                       [] OTHER -> DEFAULT_SHIFT(t, m)
        rounded   == CASE branch = "denormal" ->
                            round_nearest_tie_even(m, fp, ROUNDING_PARAMETERS(m, diff))
                       [] branch = "zero" -> ExtendedFloat(0, 0)
                       [] OTHER ->
                            round_nearest_tie_even(m, fp, ROUNDING_PARAMS(t, m))
    IN  [branch |-> branch, index |-> index, rounded |-> rounded,
         carried |-> FALSE, fp |-> rounded]

round_to_float_diff_le(t, m, fp) ==
    LET final_exp == fp.exp + DEFAULT_SHIFT(t, m)
        diff      == DENORMAL_EXPONENT(t) - fp.exp
        branch    == IF final_exp < DENORMAL_EXPONENT(t)
                     THEN (IF diff <= BITS(m) THEN "denormal" ELSE "zero")
                     ELSE "normal"
        index     == CASE branch = "denormal" -> diff
                       [] branch = "zero" -> -1
                       [] OTHER -> DEFAULT_SHIFT(t, m)
        rounded   == CASE branch = "denormal" ->
                            round_nearest_tie_even(m, fp, ROUNDING_PARAMETERS(m, diff))
                       [] branch = "zero" -> ExtendedFloat(0, 0)
                       [] OTHER ->
                            round_nearest_tie_even(m, fp, ROUNDING_PARAMS(t, m))
        carried   == BitAnd(rounded.frac, CARRY_MASK(t)) = CARRY_MASK(t)
    IN  [branch |-> branch, index |-> index, rounded |-> rounded,
         carried |-> carried,
         fp |-> IF carried THEN shr(rounded, 1) ELSE rounded]

\* round_to_float: the branch taken, the index of the ROUNDING_PARAMETERS
\* entry it looked up (-1: none), the significand as rounded, whether the
\* carry step ran, and the resulting float.
round_to_float(t, m, fp) ==
    LET final_exp == fp.exp + DEFAULT_SHIFT(t, m)
        diff      == DENORMAL_EXPONENT(t) - fp.exp
        branch    == IF final_exp < DENORMAL_EXPONENT(t)
                     THEN (IF diff < BITS(m) THEN "denormal" ELSE "zero")
                     ELSE "normal"
        index     == CASE branch = "denormal" -> diff
                       [] branch = "zero" -> -1
                       [] OTHER -> DEFAULT_SHIFT(t, m)
        rounded   == CASE branch = "denormal" ->
                            round_nearest_tie_even(m, fp, ROUNDING_PARAMETERS(m, diff))
                       [] branch = "zero" -> ExtendedFloat(0, 0)
                       [] OTHER ->
                            round_nearest_tie_even(m, fp, ROUNDING_PARAMS(t, m))
        carried   == BitAnd(rounded.frac, CARRY_MASK(t)) = CARRY_MASK(t)
    IN  [branch |-> branch, index |-> index, rounded |-> rounded,
         carried |-> carried,
         fp |-> IF carried THEN shr(rounded, 1) ELSE rounded]

avoid_overflow_shift_diff(t, m, fp) ==
    IF fp.exp >= MAX_EXPONENT(t)
    THEN LET diff == fp.exp - MAX_EXPONENT(t)
         IN  IF diff \in DOMAIN OVERFLOW_MASK(t)
                /\ BitAnd(fp.frac, OVERFLOW_MASK(t)[diff]) = 0
             THEN shl(m, fp, diff)
             ELSE fp
    ELSE fp

avoid_overflow_no_mask(t, m, fp) ==
    IF fp.exp >= MAX_EXPONENT(t)
    THEN LET diff == fp.exp - MAX_EXPONENT(t)
         IN  IF diff \in DOMAIN OVERFLOW_MASK(t)
             THEN shl(m, fp, diff + 1)
             ELSE fp
    ELSE fp

\* avoid_overflow: shift left by diff + 1 when the mask finds the headroom.
avoid_overflow(t, m, fp) ==
    IF fp.exp >= MAX_EXPONENT(t)
    THEN LET diff == fp.exp - MAX_EXPONENT(t)
         IN  IF diff \in DOMAIN OVERFLOW_MASK(t)
                /\ BitAnd(fp.frac, OVERFLOW_MASK(t)[diff]) = 0
             THEN shl(m, fp, diff + 1)
             ELSE fp
    ELSE fp

round_to_native_no_normalize(t, m, fp) ==
    LET r == round_to_float(t, m, fp)
    IN  [norm |-> fp, round |-> r, fp |-> avoid_overflow(t, m, r.fp)]

\* round_to_native: normalize, round_to_float, avoid_overflow.
round_to_native(t, m, fp) ==
    LET norm == normalize(m, fp)
        r    == round_to_float(t, m, norm)
    IN  [norm |-> norm, round |-> r, fp |-> avoid_overflow(t, m, r.fp)]

\* ------------------------------------------------------------------------
\* Digit scanner and the FromBytes trait (floats, radix 10)
\* ------------------------------------------------------------------------

Radix == 10

\* The bytes of the model: signs, two digits, the point, the exponent marker
\* and a byte that no state admits.
Bytes == {"+", "-", "0", "1", ".", "e", "a"}

Signs == {"+", "-"}

Digits == {"0", "1"}

DigitValue(b) == IF b = "1" THEN 1 ELSE 0

RECURSIVE Number(_)
\* The integer a digit run denotes.
Number(ds) ==
    IF ds = <<>> THEN 0
    ELSE Radix * Number(SubSeq(ds, 1, Len(ds) - 1)) + DigitValue(ds[Len(ds)])

\* The scanner before its first byte.
ScanStart ==
    [state |-> "SIGN", pos |-> 0, done |-> FALSE, sign |-> "+",
     integer |-> <<>>, fraction |-> <<>>,
     exp_start |-> 0, exp_sign |-> "+", exp_digits |-> <<>>]

\* The bytes a state admits.
Allowed(sc) ==
    CASE sc.state = "SIGN"     -> Signs
      [] sc.state = "INTEGER"  -> Digits \cup {".", "e"}
      [] sc.state = "FRACTION" -> Digits \cup {"e"}
      [] sc.state = "EXPONENT" ->
             IF sc.pos = sc.exp_start THEN Digits \cup Signs ELSE Digits

\* Consume an admitted byte b in the current state.
ScanByte(sc, b) ==
    LET at == [sc EXCEPT !.pos = sc.pos + 1]
    IN  CASE sc.state = "SIGN" -> [at EXCEPT !.state = "INTEGER", !.sign = b]
          [] sc.state = "INTEGER" /\ b = "." -> [at EXCEPT !.state = "FRACTION"]
          [] sc.state \in {"INTEGER", "FRACTION"} /\ b = "e" ->
                 [at EXCEPT !.state = "EXPONENT", !.exp_start = sc.pos + 1]
          [] sc.state = "INTEGER" -> [at EXCEPT !.integer = Append(sc.integer, b)]
          [] sc.state = "FRACTION" -> [at EXCEPT !.fraction = Append(sc.fraction, b)]
          [] sc.state = "EXPONENT" /\ b \in Signs -> [at EXCEPT !.exp_sign = b]
          [] OTHER -> [at EXCEPT !.exp_digits = Append(sc.exp_digits, b)]

ScanStep_point_reopens_fraction(sc, bs) ==
    IF sc.pos < Len(bs) /\ bs[sc.pos + 1] = "." /\ sc.state = "EXPONENT"
    THEN [sc EXCEPT !.pos = sc.pos + 1, !.state = "FRACTION"]
    ELSE IF sc.pos < Len(bs) /\ bs[sc.pos + 1] \in Allowed(sc)
         THEN ScanByte(sc, bs[sc.pos + 1])
         ELSE IF sc.pos < Len(bs) /\ sc.state = "SIGN"
              THEN [sc EXCEPT !.state = "INTEGER"]
              ELSE [sc EXCEPT !.done = TRUE]

\* One step of the scanner over bs: consume the next byte if the state admits
\* it; the sign is optional, so SIGN passes a byte it does not admit on to
\* INTEGER; otherwise (end of bytes, or a byte the state does not admit) stop.
ScanStep(sc, bs) ==
    IF sc.pos < Len(bs) /\ bs[sc.pos + 1] \in Allowed(sc)
    THEN ScanByte(sc, bs[sc.pos + 1])
    ELSE IF sc.pos < Len(bs) /\ sc.state = "SIGN"
         THEN [sc EXCEPT !.state = "INTEGER"]
         ELSE [sc EXCEPT !.done = TRUE]

\* At least one digit, integer or fraction, is present.
HasDigits(sc) == sc.integer # <<>> \/ sc.fraction # <<>>

\* The number of bytes a finished scan reports as consumed: none without a digit.
Consumed(sc) == IF HasDigits(sc) THEN sc.pos ELSE 0

\* The value of a finished scan: sign, the digits as an integer, and
\* decimal_exponent = explicit_exp - (number of fraction digits).
Value(sc) ==
    IF ~HasDigits(sc) THEN [sign |-> "+", digits |-> 0, decimal_exponent |-> 0]
    ELSE [sign |-> sc.sign,
          digits |-> Number(sc.integer \o sc.fraction),
          decimal_exponent |->
              (IF sc.exp_sign = "-" THEN -1 ELSE 1) * Number(sc.exp_digits)
                  - Len(sc.fraction)]

\* atof_bytes(base, bytes): the value of the longest valid prefix.
atof_bytes(sc) == Value(sc)

invalid_digit(i) == [kind |-> "InvalidDigit", index |-> i]

\* try_atof_bytes(base, bytes): an error unless every byte was consumed.
try_atof_bytes(sc, bs) ==
    IF ~HasDigits(sc) \/ Consumed(sc) < Len(bs)
    THEN [ok |-> FALSE, error |-> invalid_digit(Consumed(sc))]
    ELSE [ok |-> TRUE, value |-> Value(sc)]

\* FromBytes::from_bytes: $bytes_cb(base, bytes)
from_bytes(sc, bs) == atof_bytes(sc)

try_from_bytes_lenient_cb(sc, bs) == [ok |-> TRUE, value |-> atof_bytes(sc)]

\* FromBytes::try_from_bytes: $try_bytes_cb(base, bytes)
try_from_bytes(sc, bs) == try_atof_bytes(sc, bs)

\* ------------------------------------------------------------------------
\* Division by 100 (lexical-benchmark/algorithm/division.rs)
\* ------------------------------------------------------------------------

divisor == 100

max_precision == 14

additional_precision == 5

\* A u32 product or difference left the range of u32: x >= 2^32 or x < 0.
OverflowsU32(x) == x < 0 \/ x \div 2^16 >= 2^16

\* standard_div(v) = (v / 100, v % 100)
standard_div(x) == [quotient |-> x \div divisor, remainder |-> x % divisor]

fast_div_round_down(x) ==
    LET left_end  == (2^(max_precision + additional_precision)) \div divisor
        product   == x * left_end
        quotient  == product \div 2^(max_precision + additional_precision)
        remainder == x - divisor * quotient
    IN  [quotient |-> quotient, remainder |-> remainder,
         overflow |-> OverflowsU32(product) \/ OverflowsU32(divisor * quotient)
                          \/ OverflowsU32(remainder)]

\* fast_div(v): multiply by ceil(2^19 / 100) and shift right by 19; overflow
\* records whether a u32 operation left the range (none does for the
\* dividends of the model, so no value is ever wrapped).
fast_div(x) ==
    LET left_end  == (2^(max_precision + additional_precision) + divisor - 1)
                         \div divisor
        product   == x * left_end
        quotient  == product \div 2^(max_precision + additional_precision)
        remainder == x - divisor * quotient
    IN  [quotient |-> quotient, remainder |-> remainder,
         overflow |-> OverflowsU32(product) \/ OverflowsU32(divisor * quotient)
                          \/ OverflowsU32(remainder)]

\* ------------------------------------------------------------------------
\* State
\* ------------------------------------------------------------------------

VARIABLES
    M,       \* the mantissa type of the call
    T,       \* the float type of the call
    fp0,     \* the ExtendedFloat passed in
    fp,      \* the ExtendedFloat after the call (it is updated in place)
    op,      \* the function that was called, "init" before the call
    shift,   \* the shift of the RoundingParameters passed in (kernel calls)
    ret,     \* the (is_above, is_halfway) pair round_nearest returned
    steps,   \* round_to_float / round_to_native: branch, rounded value, carry
    bytes,   \* the byte slice passed to from_bytes / try_from_bytes
    scan,    \* the digit scanner: state, position, the digits seen so far
    result,  \* what the call returned, NoResult before it returns
    v        \* the u32 passed to standard_div / fast_div

vars == <<M, T, fp0, fp, op, shift, ret, steps, bytes, scan, result, v>>

roundVars == <<M, T, fp0, fp, op, shift, ret, steps>>

scanVars == <<bytes, scan, result>>

NoRet == [is_above |-> FALSE, is_halfway |-> FALSE]

NoRound == [branch |-> "none", index |-> -1, rounded |-> ExtendedFloat(0, 0),
            carried |-> FALSE, fp |-> ExtendedFloat(0, 0)]

NoSteps == [norm |-> ExtendedFloat(0, 0), round |-> NoRound]

NoResult == [call |-> "none"]

\* No parse is under way (the rounding specifications).
NoScan == bytes = <<>> /\ scan = ScanStart /\ result = NoResult

\* Significands of M: every value of the type.
Fracs(m) == 0..(2^BITS(m) - 1)

\* ------------------------------------------------------------------------
\* Rounding kernel: round_nearest and the two tie rules on every significand
\* and every table entry with shift in 1..bits(M)-1
\* ------------------------------------------------------------------------

KernelExps == {-1, 0, 1}

InitKernel ==
    /\ M \in Mantissas
    /\ T = "f32"
    /\ fp0 \in {ExtendedFloat(f, e) : f \in Fracs(M), e \in KernelExps}
    /\ fp = fp0
    /\ op = "init"
    /\ shift = 0
    /\ ret = NoRet
    /\ steps = NoSteps
    /\ NoScan
    /\ v = 0

RoundNearest ==
    /\ op = "init"
    /\ \E s \in 1..(BITS(M) - 1) :
         LET r == round_nearest(fp, ROUNDING_PARAMETERS(M, s))
         IN  /\ shift' = s
             /\ fp' = r.fp
             /\ ret' = [is_above |-> r.is_above, is_halfway |-> r.is_halfway]
    /\ op' = "round_nearest"
    /\ UNCHANGED <<M, T, fp0, steps, scanVars, v>>

RoundNearestTieEven ==
    /\ op = "init"
    /\ \E s \in 1..(BITS(M) - 1) :
         /\ shift' = s
         /\ fp' = round_nearest_tie_even(M, fp, ROUNDING_PARAMETERS(M, s))
    /\ op' = "round_nearest_tie_even"
    /\ UNCHANGED <<M, T, fp0, ret, steps, scanVars, v>>

RoundNearestTieAwayZero ==
    /\ op = "init"
    /\ \E s \in 1..(BITS(M) - 1) :
         /\ shift' = s
         /\ fp' = round_nearest_tie_away_zero(M, fp, ROUNDING_PARAMETERS(M, s))
    /\ op' = "round_nearest_tie_away_zero"
    /\ UNCHANGED <<M, T, fp0, ret, steps, scanVars, v>>

NextKernel == RoundNearest \/ RoundNearestTieEven \/ RoundNearestTieAwayZero

SpecKernel == InitKernel /\ [][NextKernel]_vars

\* ------------------------------------------------------------------------
\* Rounding to a native float
\* ------------------------------------------------------------------------

\* Exponents from below the zeroing threshold of a normalized significand to
\* above the last OVERFLOW_MASK entry.
FloatExps(t, m) ==
    (DENORMAL_EXPONENT(t) - 2 * BITS(m))..(MAX_EXPONENT(t) + MANTISSA_SIZE(t) + 2)

InitFloat ==
    /\ M \in Mantissas
    /\ T \in Floats
    /\ fp0 \in {ExtendedFloat(f, e) : f \in Fracs(M), e \in FloatExps(T, M)}
    /\ fp = fp0
    /\ op = "init"
    /\ shift = 0
    /\ ret = NoRet
    /\ steps = NoSteps
    /\ NoScan
    /\ v = 0

RoundToFloat ==
    /\ op = "init"
    /\ LET r == round_to_float(T, M, fp)
       IN  /\ fp' = r.fp
           /\ steps' = [norm |-> fp, round |-> r]
    /\ op' = "round_to_float"
    /\ UNCHANGED <<M, T, fp0, shift, ret, scanVars, v>>

AvoidOverflow ==
    /\ op = "init"
    /\ fp' = avoid_overflow(T, M, fp)
    /\ op' = "avoid_overflow"
    /\ UNCHANGED <<M, T, fp0, shift, ret, steps, scanVars, v>>

RoundToNative ==
    /\ op = "init"
    /\ LET r == round_to_native(T, M, fp)
       IN  /\ fp' = r.fp
           /\ steps' = [norm |-> r.norm, round |-> r.round]
    /\ op' = "round_to_native"
    /\ UNCHANGED <<M, T, fp0, shift, ret, scanVars, v>>

NextFloat == RoundToFloat \/ AvoidOverflow \/ RoundToNative

SpecFloat == InitFloat /\ [][NextFloat]_vars

\* ------------------------------------------------------------------------
\* Properties of the rounding kernel (SpecKernel)
\* ------------------------------------------------------------------------

Abs(x) == IF x < 0 THEN -x ELSE x

\* C2: round_nearest returns above = (low bits > mid) and halfway = (low bits
\* = mid), where the low bits are the `shift` truncated bits and mid is
\* 1 << (shift-1); above and halfway never hold together and neither holds
\* exactly when the low bits are below mid; afterwards the significand is the
\* input >> shift and the exponent is the input exponent + shift.
C2_RoundNearest ==
    op = "round_nearest" =>
        LET low == fp0.frac % 2^shift
            mid == 2^(shift - 1)
        IN  /\ shift \in 1..(BITS(M) - 1)
            /\ ret.is_above = (low > mid)
            /\ ret.is_halfway = (low = mid)
            /\ ~(ret.is_above /\ ret.is_halfway)
            /\ (~ret.is_above /\ ~ret.is_halfway) = (low < mid)
            /\ fp.frac = fp0.frac \div 2^shift
            /\ fp.exp = fp0.exp + shift

\* round_nearest_test: 0x60 with the parameters at index 6 is exactly halfway.
C2_Witness ==
    /\ op = "round_nearest"
    /\ fp0.frac = 96 /\ shift = 6
    /\ ret.is_halfway /\ ~ret.is_above
    /\ fp.frac = 1

\* C3: round_nearest_tie_even adds 1 to input >> shift iff the truncated bits
\* are above the midpoint, or at the midpoint with input >> shift odd; the
\* result is the integer nearest to input / 2^shift, an exact tie going to the
\* even integer.
C3_TieEven ==
    op = "round_nearest_tie_even" =>
        LET q   == fp0.frac \div 2^shift
            low == fp0.frac % 2^shift
            mid == 2^(shift - 1)
            up  == low > mid \/ (low = mid /\ q % 2 = 1)
            err == Abs(fp.frac * 2^shift - fp0.frac)
        IN  /\ fp.frac = q + (IF up THEN 1 ELSE 0)
            /\ 2 * err <= 2^shift
            /\ (2 * err = 2^shift => fp.frac % 2 = 0)
            /\ fp.exp = fp0.exp + shift

\* round_nearest_tie_even_test: 0x60 is halfway between 1 and 2 and goes to 2.
C3_Witness ==
    /\ op = "round_nearest_tie_even"
    /\ fp0.frac = 96 /\ shift = 6
    /\ fp.frac = 2

Min(a, b) == IF a < b THEN a ELSE b

\* The exponent of fp once its significand is shifted all the way left.
NormalizedExp(m, x) == x.exp - (BITS(m) - BitLen(x.frac))

\* out (significand f with the hidden bit set, exponent x) is the value of
\* inp rounded to nearest, ties to even, at MANTISSA_SIZE+1 significant bits:
\* neither neighbour of out among the floats of that precision is closer to
\* inp, and when a neighbour is as close, f is even.  Values are compared in
\* units of half the smaller of the two exponents' powers of two.
IsNearestTieEven(t, inp, out) ==
    LET lo   == Min(inp.exp, out.exp) - 1
        A    == out.frac * 2^(out.exp - lo)
        B    == inp.frac * 2^(inp.exp - lo)
        ulp  == 2^(out.exp - lo)
        succ == A + ulp
        pred == IF out.frac > 2^MANTISSA_SIZE(t) THEN A - ulp ELSE A - (ulp \div 2)
        d    == Abs(A - B)
    IN  /\ d <= Abs(succ - B)
        /\ d <= Abs(pred - B)
        /\ (d = Abs(succ - B) \/ d = Abs(pred - B)) => out.frac % 2 = 0

\* C1: round_to_native of a float with a nonzero significand whose normalized
\* exponent e has e + DEFAULT_SHIFT >= DENORMAL_EXPONENT yields a significand
\* f with 2^MANTISSA_SIZE <= f < 2^(MANTISSA_SIZE+1) and an exponent x with
\* f * 2^x the round-to-nearest, ties-to-even value of the input at
\* MANTISSA_SIZE+1 significant bits.
C1_RoundToNative ==
    (/\ op = "round_to_native"
     /\ fp0.frac # 0
     /\ NormalizedExp(M, fp0) + DEFAULT_SHIFT(T, M) >= DENORMAL_EXPONENT(T))
    => /\ 2^MANTISSA_SIZE(T) <= fp.frac
       /\ fp.frac < 2^(MANTISSA_SIZE(T) + 1)
       /\ IsNearestTieEven(T, fp0, fp)

\* An unnormalized input exactly halfway between two floats, rounded up to the
\* even one (round_to_native_test, "Halfway, round-up").
C1_Witness ==
    /\ op = "round_to_native"
    /\ fp0.frac # 0
    /\ NormalizedExp(M, fp0) + DEFAULT_SHIFT(T, M) >= DENORMAL_EXPONENT(T)
    /\ fp0.frac # steps.norm.frac
    /\ steps.norm.frac % 2^DEFAULT_SHIFT(T, M) = 2^(DEFAULT_SHIFT(T, M) - 1)
    /\ fp.frac = steps.norm.frac \div 2^DEFAULT_SHIFT(T, M) + 1

\* C5: in round_to_float, when exp + DEFAULT_SHIFT < DENORMAL_EXPONENT, with
\* diff = DENORMAL_EXPONENT - exp: if diff >= bits(M) the float is zeroed
\* (significand 0, exponent 0); otherwise the significand is the input
\* rounded to nearest, ties to even, under a right shift of exactly diff bits,
\* and the exponent is exactly DENORMAL_EXPONENT.
C5_Denormal ==
    (op = "round_to_float" /\ fp0.exp + DEFAULT_SHIFT(T, M) < DENORMAL_EXPONENT(T))
    => LET diff == DENORMAL_EXPONENT(T) - fp0.exp
           q    == fp0.frac \div 2^diff
           err  == Abs(fp.frac * 2^diff - fp0.frac)
       IN  IF diff >= BITS(M)
           THEN fp = ExtendedFloat(0, 0)
           ELSE /\ fp.frac \in {q, q + 1}
                /\ 2 * err <= 2^diff
                /\ (2 * err = 2^diff => fp.frac % 2 = 0)
                /\ fp.exp = DENORMAL_EXPONENT(T)

\* A denormal whose truncated bits round the shifted significand up.
C5_Witness ==
    /\ op = "round_to_float"
    /\ fp0.exp + DEFAULT_SHIFT(T, M) < DENORMAL_EXPONENT(T)
    /\ DENORMAL_EXPONENT(T) - fp0.exp < BITS(M)
    /\ fp.frac = fp0.frac \div 2^(DENORMAL_EXPONENT(T) - fp0.exp) + 1
    /\ fp.frac > 1
    /\ fp.exp = DENORMAL_EXPONENT(T)

\* The top MANTISSA_SIZE+1 bits of a normalized significand are all set and
\* the bits below them round it up.
CarryCase(t, m, x) ==
    /\ BitLen(x.frac) = BITS(m)
    /\ x.frac \div 2^DEFAULT_SHIFT(t, m) = 2^(MANTISSA_SIZE(t) + 1) - 1
    /\ x.frac % 2^DEFAULT_SHIFT(t, m) >= 2^(DEFAULT_SHIFT(t, m) - 1)

\* The rounded significand is CARRY_MASK, the carry branch ran, the final
\* significand is the hidden bit and the exponent is exp + DEFAULT_SHIFT + 1.
CarryOutcome ==
    /\ steps.round.rounded.frac = CARRY_MASK(T)
    /\ steps.round.carried
    /\ fp.frac = 2^MANTISSA_SIZE(T)
    /\ fp.exp = fp0.exp + DEFAULT_SHIFT(T, M) + 1

\* C6 as stated: in round_to_float, whenever the normalized pre-rounding
\* significand has its top MANTISSA_SIZE+1 bits set and the truncated low bits
\* round up, the carry outcome follows (whatever the exponent).
C6_Original ==
    (op = "round_to_float" /\ CarryCase(T, M, fp0)) => CarryOutcome

\* C6, amended: in round_to_float, on the non-denormal branch
\* (exp + DEFAULT_SHIFT >= DENORMAL_EXPONENT), whenever the normalized
\* pre-rounding significand has its top MANTISSA_SIZE+1 bits set and the
\* truncated low bits round up, the rounded significand is CARRY_MASK, the
\* carry branch runs, the final significand is the hidden bit and the final
\* exponent is exp + DEFAULT_SHIFT + 1.
C6_Carry ==
    (/\ op = "round_to_float"
     /\ fp0.exp + DEFAULT_SHIFT(T, M) >= DENORMAL_EXPONENT(T)
     /\ CarryCase(T, M, fp0))
    => CarryOutcome

\* All bits of the significand set, on the non-denormal branch.
C6_Witness ==
    /\ op = "round_to_float"
    /\ fp0.exp + DEFAULT_SHIFT(T, M) >= DENORMAL_EXPONENT(T)
    /\ CarryCase(T, M, fp0)
    /\ fp0.frac = 2^BITS(M) - 1
    /\ steps.round.carried

\* The bits of OVERFLOW_MASK[diff] that are set in the significand, by
\* position: bits MANTISSA_SIZE-diff .. MANTISSA_SIZE.
TopBits(t, x, diff) ==
    (x.frac \div 2^(MANTISSA_SIZE(t) - diff)) % 2^(diff + 1)

\* C7: avoid_overflow on a significand < 2^(MANTISSA_SIZE+1) with
\* exp >= MAX_EXPONENT, diff = exp - MAX_EXPONENT an index of OVERFLOW_MASK and
\* (significand & OVERFLOW_MASK[diff]) == 0: the top diff+1 bits of the
\* (MANTISSA_SIZE+1)-bit significand are zero, the significand is shifted left
\* by diff+1 with no set bit moving above the hidden bit, the value
\* significand * 2^exp is unchanged and the exponent becomes MAX_EXPONENT - 1.
C7_AvoidOverflowShifts ==
    (/\ op = "avoid_overflow"
     /\ fp0.frac < 2^(MANTISSA_SIZE(T) + 1)
     /\ fp0.exp >= MAX_EXPONENT(T)
     /\ fp0.exp - MAX_EXPONENT(T) \in DOMAIN OVERFLOW_MASK(T)
     /\ BitAnd(fp0.frac, OVERFLOW_MASK(T)[fp0.exp - MAX_EXPONENT(T)]) = 0)
    => LET diff == fp0.exp - MAX_EXPONENT(T)
       IN  /\ fp0.frac < 2^(MANTISSA_SIZE(T) - diff)
           /\ fp.frac = fp0.frac * 2^(diff + 1)
           /\ fp.frac < 2^(MANTISSA_SIZE(T) + 1)
           /\ fp.exp = MAX_EXPONENT(T) - 1
           /\ fp.frac = fp0.frac * 2^(fp0.exp - fp.exp)

\* avoid_overflow_test, "succeeds": a nonzero significand above MAX_EXPONENT
\* is shifted into the hidden bit.
C7_Witness ==
    /\ op = "avoid_overflow"
    /\ fp0.exp > MAX_EXPONENT(T)
    /\ fp0.frac > 0
    /\ fp.exp = MAX_EXPONENT(T) - 1
    /\ fp.frac = fp0.frac * 2^(fp0.exp - MAX_EXPONENT(T) + 1)
    /\ fp.frac >= 2^MANTISSA_SIZE(T)

\* C8: avoid_overflow leaves significand and exponent unchanged when
\* exp < MAX_EXPONENT, when diff = exp - MAX_EXPONENT is not an index of
\* OVERFLOW_MASK (diff > MANTISSA_SIZE), or when the significand has a bit of
\* OVERFLOW_MASK[diff] set; in the latter two cases the exponent stays
\* >= MAX_EXPONENT.
C8_AvoidOverflowFrame ==
    op = "avoid_overflow" =>
        LET diff == fp0.exp - MAX_EXPONENT(T)
        IN  /\ fp0.exp < MAX_EXPONENT(T) => fp = fp0
            /\ (fp0.exp >= MAX_EXPONENT(T) /\ diff > MANTISSA_SIZE(T))
                   => (fp = fp0 /\ fp.exp >= MAX_EXPONENT(T))
            /\ (/\ fp0.exp >= MAX_EXPONENT(T)
                /\ diff <= MANTISSA_SIZE(T)
                /\ TopBits(T, fp0, diff) # 0)
                   => (fp = fp0 /\ fp.exp >= MAX_EXPONENT(T))

\* avoid_overflow_test, "fails by 1": one set bit too high for the shift.
C8_Witness ==
    /\ op = "avoid_overflow"
    /\ fp0.exp > MAX_EXPONENT(T)
    /\ fp0.exp - MAX_EXPONENT(T) <= MANTISSA_SIZE(T)
    /\ fp0.frac < 2^(MANTISSA_SIZE(T) + 1)
    /\ TopBits(T, fp0, fp0.exp - MAX_EXPONENT(T)) = 1
    /\ fp = fp0

\* ------------------------------------------------------------------------
\* Parsing bytes: the scanner runs to its end, then the call returns
\* ------------------------------------------------------------------------

MaxLen == 4

Inputs == UNION {[1..n -> Bytes] : n \in 0..MaxLen}

InitScan ==
    /\ M = "u64" /\ T = "f64"
    /\ fp0 = ExtendedFloat(0, 0) /\ fp = fp0
    /\ op = "init" /\ shift = 0 /\ ret = NoRet /\ steps = NoSteps
    /\ bytes \in Inputs
    /\ scan = ScanStart
    /\ result = NoResult
    /\ v = 0

Scan ==
    /\ ~scan.done
    /\ scan' = ScanStep(scan, bytes)
    /\ UNCHANGED <<roundVars, v, bytes, result>>

FromBytes ==
    /\ scan.done /\ result = NoResult
    /\ result' = [call |-> "from_bytes", value |-> from_bytes(scan, bytes)]
    /\ UNCHANGED <<roundVars, v, bytes, scan>>

TryFromBytes ==
    /\ scan.done /\ result = NoResult
    /\ result' = [call |-> "try_from_bytes", ret |-> try_from_bytes(scan, bytes)]
    /\ UNCHANGED <<roundVars, v, bytes, scan>>

NextScan == Scan \/ FromBytes \/ TryFromBytes

SpecScan == InitScan /\ [][NextScan]_vars

\* ------------------------------------------------------------------------
\* Properties of parsing (SpecScan)
\* ------------------------------------------------------------------------

AllIn(s, i, j, S) == \A x \in i..j : s[x] \in S

\* s from position i on is an exponent: the marker, an optional sign, digits.
IsExponent(s, i) ==
    /\ s[i] = "e"
    /\ \/ i = Len(s)
       \/ s[i + 1] \in Signs \cup Digits /\ AllIn(s, i + 2, Len(s), Digits)

\* s is the start of a number: an optional sign, integer digits, an optional
\* point with fraction digits, an optional exponent.
IsNumeric(s) ==
    \E a \in 0..1 : \E b \in a..Len(s) : \E c \in b..Len(s) :
        /\ a = 1 => s[1] \in Signs
        /\ AllIn(s, a + 1, b, Digits)
        /\ c > b => (s[b + 1] = "." /\ AllIn(s, b + 2, c, Digits))
        /\ c = Len(s) \/ IsExponent(s, c + 1)

\* The length of the longest numeric prefix of s.
NumericPrefix(s) ==
    CHOOSE k \in 0..Len(s) :
        /\ IsNumeric(SubSeq(s, 1, k))
        /\ \A j \in (k + 1)..Len(s) : ~IsNumeric(SubSeq(s, 1, j))

\* A digit of the integer or the fraction is among the first k bytes of s.
HasMantissaDigit(s, k) ==
    \E i \in 1..k : s[i] \in Digits /\ \A j \in 1..(i - 1) : s[j] # "e"

\* C9: try_from_bytes of an input with a valid numeric prefix followed by a
\* byte that is not admissible returns the error InvalidDigit with the index
\* of the first unconsumed byte and no value; an input that is consumed
\* entirely returns Ok with the parsed value.
C9_TryFromBytes ==
    (result.call = "try_from_bytes"
         /\ HasMantissaDigit(bytes, NumericPrefix(bytes)))
    => IF NumericPrefix(bytes) < Len(bytes)
       THEN result.ret = [ok |-> FALSE,
                          error |-> [kind |-> "InvalidDigit",
                                     index |-> NumericPrefix(bytes)]]
       ELSE /\ result.ret.ok
            /\ DOMAIN result.ret = {"ok", "value"}
            /\ result.ret.value = atof_bytes(scan)

\* from_bytes_test: try_from_bytes(b"0.0a", 10) is Err(invalid_digit(3)).
C9_Witness ==
    /\ bytes = <<"0", ".", "0", "a">>
    /\ result.call = "try_from_bytes"
    /\ result.ret = [ok |-> FALSE, error |-> invalid_digit(3)]

StateOrder(st) ==
    CASE st = "SIGN" -> 0 [] st = "INTEGER" -> 1 [] st = "FRACTION" -> 2
      [] st = "EXPONENT" -> 3

\* A step of the scanner: the state does not move backward; FRACTION is
\* entered from INTEGER by consuming '.', EXPONENT from INTEGER or FRACTION by
\* consuming the marker; a byte is consumed only if the state admits it; the
\* scanner stops only at the end of the bytes or at a byte its state does not
\* admit, and stays stopped.
ScanForward ==
    /\ StateOrder(scan'.state) >= StateOrder(scan.state)
    /\ (scan'.state = "FRACTION" /\ scan.state # "FRACTION")
           => /\ scan.state = "INTEGER"
              /\ scan.pos < Len(bytes) /\ bytes[scan.pos + 1] = "."
              /\ scan'.pos = scan.pos + 1
    /\ (scan'.state = "EXPONENT" /\ scan.state # "EXPONENT")
           => /\ scan.state \in {"INTEGER", "FRACTION"}
              /\ scan.pos < Len(bytes) /\ bytes[scan.pos + 1] = "e"
              /\ scan'.pos = scan.pos + 1
    /\ scan'.pos # scan.pos
           => /\ scan'.pos = scan.pos + 1
              /\ scan.pos < Len(bytes) /\ bytes[scan.pos + 1] \in Allowed(scan)
    /\ (scan'.done /\ ~scan.done)
           => /\ scan.pos = Len(bytes) \/ bytes[scan.pos + 1] \notin Allowed(scan)
              /\ scan' = [scan EXCEPT !.done = TRUE]
    /\ scan.done => scan' = scan

\* C10: the scanner starts in SIGN and only moves forward through SIGN,
\* INTEGER, FRACTION, EXPONENT; FRACTION is entered only from INTEGER on '.',
\* EXPONENT only from INTEGER or FRACTION on the exponent marker; scanning
\* stops at the first byte the current state does not admit or at the end of
\* the bytes.
C10_Scanner == scan.state = "SIGN" /\ [][ScanForward]_vars

\* A scan through all four states that stops at a byte EXPONENT does not admit.
C10_Witness ==
    /\ scan.done
    /\ scan.state = "EXPONENT"
    /\ scan.fraction # <<>>
    /\ scan.pos < Len(bytes)

\* ------------------------------------------------------------------------
\* Dividing by 100: both algorithms on every dividend up to MaxDividend
\* ------------------------------------------------------------------------

MaxDividend == 20000

InitDiv ==
    /\ M = "u64" /\ T = "f64"
    /\ fp0 = ExtendedFloat(0, 0) /\ fp = fp0
    /\ op = "init" /\ shift = 0 /\ ret = NoRet /\ steps = NoSteps
    /\ NoScan
    /\ v \in 0..MaxDividend

StandardDiv ==
    /\ result = NoResult
    /\ result' = [call |-> "standard_div", ret |-> standard_div(v)]
    /\ UNCHANGED <<roundVars, bytes, scan, v>>

FastDiv ==
    /\ result = NoResult
    /\ result' = [call |-> "fast_div", ret |-> fast_div(v)]
    /\ UNCHANGED <<roundVars, bytes, scan, v>>

NextDiv == StandardDiv \/ FastDiv

SpecDiv == InitDiv /\ [][NextDiv]_vars

\* C11: for every u32 v below 2^14, fast_div(v) returns the pair
\* (v / 100, v % 100) that standard_div(v) returns, the product v * 5243 stays
\* within u32, and the remainder is in [0, 100).
C11_FastDiv ==
    (result.call = "fast_div" /\ v < 2^max_precision)
    => /\ result.ret.quotient = standard_div(v).quotient
       /\ result.ret.remainder = standard_div(v).remainder
       /\ divisor * result.ret.quotient + result.ret.remainder = v
       /\ result.ret.remainder >= 0 /\ result.ret.remainder < 100
       /\ ~OverflowsU32(v * 5243)
       /\ ~result.ret.overflow

\* The largest dividend of 14 bits: 16383 = 163 * 100 + 83.
C11_Witness ==
    /\ result.call = "fast_div"
    /\ v = 2^max_precision - 1
    /\ result.ret.quotient = 163 /\ result.ret.remainder = 83

\* ------------------------------------------------------------------------
\* Table lookups, significand width and the final avoid_overflow (SpecFloat)
\* ------------------------------------------------------------------------

\* The widths of the source's types: u64 and u128, and the number of entries
\* of the two OVERFLOW_MASK tables (MANTISSA_SIZE + 1: 24 for f32, 53 for f64).
U64_BITS == 64

U128_BITS == 128

F32_OVERFLOW_MASK_LEN == 24

F64_OVERFLOW_MASK_LEN == 53

\* DEFAULT_SHIFT = $t::BITS - T::MANTISSA_SIZE - 1 at the source's widths.
SourceDefaultShifts ==
    {[bits |-> b, shift |-> b - (n - 1) - 1] :
        b \in {U64_BITS, U128_BITS},
        n \in {F32_OVERFLOW_MASK_LEN, F64_OVERFLOW_MASK_LEN}}

\* A call of round_to_float, alone or inside round_to_native, has returned;
\* steps.norm is the float it was given.
Rounded == op \in {"round_to_float", "round_to_native"}

\* C12: every ROUNDING_PARAMETERS lookup of round_to_float is in bounds and
\* never at shift 0: for each (M, T) pair 1 <= DEFAULT_SHIFT < bits(M), the
\* non-denormal branch looks up DEFAULT_SHIFT, and the unchecked lookup of
\* the denormal branch has DEFAULT_SHIFT < diff < bits(M).
C12_TableLookups ==
    /\ \A p \in SourceDefaultShifts : 1 <= p.shift /\ p.shift < p.bits
    /\ Rounded =>
        /\ 1 <= DEFAULT_SHIFT(T, M) /\ DEFAULT_SHIFT(T, M) < BITS(M)
        /\ steps.round.branch = "normal"
               => steps.round.index = DEFAULT_SHIFT(T, M)
        /\ steps.round.branch = "denormal"
               => /\ steps.round.index = DENORMAL_EXPONENT(T) - steps.norm.exp
                  /\ DEFAULT_SHIFT(T, M) < steps.round.index
                  /\ steps.round.index < BITS(M)
        /\ steps.round.branch = "zero" => steps.round.index = -1

\* The denormal branch looks up the last entry of the table.
C12_Witness ==
    /\ op = "round_to_float"
    /\ steps.round.branch = "denormal"
    /\ steps.round.index = BITS(M) - 1
    /\ fp0.frac = 2^BITS(M) - 1
    /\ fp.frac = 2

\* C13: after round_to_float on a normalized input (top bit set, or zero) the
\* significand is < 2^(MANTISSA_SIZE+1), with no bit at or above CARRY_MASK,
\* on every branch; in the denormal branch the carry step never runs.
C13_SignificandFits ==
    (Rounded /\ (steps.norm.frac = 0 \/ BitLen(steps.norm.frac) = BITS(M)))
    => /\ steps.round.fp.frac < 2^(MANTISSA_SIZE(T) + 1)
       /\ steps.round.fp.frac \div CARRY_MASK(T) = 0
       /\ steps.round.branch \in {"normal", "denormal", "zero"}
       /\ steps.round.branch = "denormal" => ~steps.round.carried

\* A denormal rounded up to the hidden bit itself, without a carry.
C13_Witness ==
    /\ op = "round_to_float"
    /\ BitLen(fp0.frac) = BITS(M)
    /\ steps.round.branch = "denormal"
    /\ fp.frac = 2^MANTISSA_SIZE(T)
    /\ fp.frac = fp0.frac \div 2^steps.round.index + 1
    /\ ~steps.round.carried

\* The hidden bit of a significand is set.
HiddenBit(t, x) == (x.frac \div 2^MANTISSA_SIZE(t)) % 2 = 1

\* C14: in round_to_native on a nonzero significand the final avoid_overflow
\* changes nothing: after normalize and round_to_float either the hidden bit
\* is set, and every OVERFLOW_MASK entry contains the hidden bit, or the
\* exponent is DENORMAL_EXPONENT or 0, both below MAX_EXPONENT; a rounded
\* exponent >= MAX_EXPONENT is the exponent the caller sees.
C14_AvoidOverflowNoOp ==
    (op = "round_to_native" /\ fp0.frac # 0)
    => /\ fp = steps.round.fp
       /\ \/ /\ HiddenBit(T, steps.round.fp)
             /\ \A i \in DOMAIN OVERFLOW_MASK(T) :
                    (OVERFLOW_MASK(T)[i] \div 2^MANTISSA_SIZE(T)) % 2 = 1
          \/ /\ steps.round.fp.exp \in {DENORMAL_EXPONENT(T), 0}
             /\ steps.round.fp.exp < MAX_EXPONENT(T)
       /\ steps.round.fp.exp >= MAX_EXPONENT(T)
              => (fp.exp = steps.round.fp.exp /\ fp.exp >= MAX_EXPONENT(T))

\* A rounded exponent that indexes OVERFLOW_MASK, left as it is.
C14_Witness ==
    /\ op = "round_to_native"
    /\ fp0.frac # 0
    /\ fp0.frac # steps.norm.frac
    /\ steps.round.fp.exp > MAX_EXPONENT(T)
    /\ steps.round.fp.exp - MAX_EXPONENT(T) \in DOMAIN OVERFLOW_MASK(T)
    /\ fp = steps.round.fp

====
